---- MODULE Spec2Model ----
(***************************************************************************)
(* ESP32-CAM -> SH1106 OLED streamer (src/unnamed/part_001): the boot      *)
(* sequence of setup(), the retry loop of initCamera(), the frame pipeline *)
(* of processFrame()/convertFrameToBitmap() and the steady-state loop().   *)
(* The sketch is single threaded: pc is the position of the one flow of    *)
(* control; the sensor driver, the display driver and the I2C bus are the  *)
(* environment, and their results are drawn with \E.                       *)
(***************************************************************************)
EXTENDS Integers, Sequences, FiniteSets, TLC

(* ---------------------------------------------------------------------- *)
(* Program constants                                                      *)
(* ---------------------------------------------------------------------- *)
BMP_W == 128
BMP_H == 64
SRC_W == 96
SRC_H == 96
FRAME_DELAY_MS == 50
BRIGHTNESS_THRESHOLD == 64
MAX_RETRIES == 5
ERROR_LIMIT == 1000
STATS_PERIOD == 100

(* ---------------------------------------------------------------------- *)
(* Bounds of the model                                                    *)
(* ---------------------------------------------------------------------- *)
\* loop() iterations explored after the first entry into loop()
MaxIter == 3

(* ---------------------------------------------------------------------- *)
(* Frames delivered by the sensor driver                                  *)
(* ---------------------------------------------------------------------- *)
\* sizeof(bitmapBuffer)
BMP_BYTES == (BMP_W * BMP_H) \div 8

\* 96 * 96, the length convertFrameToBitmap requires
SRC_LEN == SRC_W * SRC_H

\* Contents of a frame buffer: a few images, each a function of the byte index.
Contents == {"dark", "atT", "aboveT", "bright", "ramp"}

\* gray[i] of the image named c
Pixel(c, i) ==
  CASE c = "dark"   -> 10
    [] c = "atT"    -> BRIGHTNESS_THRESHOLD
    [] c = "aboveT" -> BRIGHTNESS_THRESHOLD + 1
    [] c = "bright" -> 200
    [] OTHER        -> (37 * (i % SRC_W) + 101 * (i \div SRC_W)) % 256

\* esp_camera_fb_get() returned NULL
NoFrame == [width |-> 0, height |-> 0, format |-> "NONE", buf |-> "NULL", len |-> 0]

GoodFrame(c) ==
  [width |-> SRC_W, height |-> SRC_H, format |-> "GRAYSCALE", buf |-> c, len |-> SRC_LEN]

\* Frames that pass processFrame's validation and convertFrameToBitmap's guard.
GoodFrames == {GoodFrame(c) : c \in Contents}

\* Frames with the right width, height and format whose buffer pointer is NULL
\* or whose length is short of 96*96.
OddFrames ==
  { [GoodFrame("ramp") EXCEPT !.buf = "NULL"],
    [GoodFrame("aboveT") EXCEPT !.len = SRC_LEN - 1] }

\* Frames that fail the width/height/format validation.
MismatchFrames ==
  { [GoodFrame("ramp") EXCEPT !.width = 160, !.height = 120, !.len = 19200],
    [GoodFrame("ramp") EXCEPT !.height = 120, !.len = 11520],
    [GoodFrame("ramp") EXCEPT !.format = "JPEG", !.len = 2048] }

Frames == GoodFrames \cup OddFrames \cup MismatchFrames

\* esp_err_t values of esp_camera_init
InitErrors == {"ESP_ERR_NO_MEM", "ESP_ERR_INVALID_ARG", "ESP_FAIL", "ESP_ERR_NOT_FOUND"}

(* ---------------------------------------------------------------------- *)
(* convertFrameToBitmap                                                   *)
(* ---------------------------------------------------------------------- *)
ZeroBytes == [i \in 0..(BMP_BYTES - 1) |-> 0]

\* The destination column used as the source column, without scaling.
SrcXUnscaled(x) == x

\* (int)(x * scaleX) with scaleX = 96.0f / BMP_W = 0.75f: the product is exact
\* in binary floating point, the cast truncates; then the clamp of line 198.
SrcX(x) ==
  LET v == (x * SRC_W) \div BMP_W
  IN  IF v >= SRC_W THEN SRC_W - 1 ELSE v

\* (int)(y * scaleY) with scaleY = 96.0f / BMP_H = 1.5f, and the clamp of line 193.
SrcY(y) ==
  LET v == (y * SRC_H) \div BMP_H
  IN  IF v >= SRC_H THEN SRC_H - 1 ELSE v

\* The comparison written >= : a pixel equal to the threshold is lit.
PixLitInclusive(pix) == pix >= BRIGHTNESS_THRESHOLD

\* pix > threshold
PixLit(pix) == pix > BRIGHTNESS_THRESHOLD

\* (y * BMP_W + x) >> 3
IdxOf(x, y) == (y * BMP_W + x) \div 8

\* 7 - (x & 7)
BitOf(x) == 7 - (x % 8)

\* The bits set in byte value a.
BitsOf(a) == {b \in 0..7 : (a \div (2 ^ b)) % 2 = 1}

\* The byte value with exactly the bits of S set.
ByteOfBits(S) ==
    (IF 0 \in S THEN 1 ELSE 0)  + (IF 1 \in S THEN 2 ELSE 0)
  + (IF 2 \in S THEN 4 ELSE 0)  + (IF 3 \in S THEN 8 ELSE 0)
  + (IF 4 \in S THEN 16 ELSE 0) + (IF 5 \in S THEN 32 ELSE 0)
  + (IF 6 \in S THEN 64 ELSE 0) + (IF 7 \in S THEN 128 ELSE 0)

\* The bits the double loop ORs into bitmapBuffer[i]: those of the pixels (x, y)
\* whose idx is i and whose sampled source pixel is above the threshold.
LitBits(gray, i) ==
  { BitOf(p % BMP_W) :
      p \in { q \in (8 * i)..(8 * i + 7) :
                /\ IdxOf(q % BMP_W, q \div BMP_W) = i
                /\ PixLit(Pixel(gray, SrcY(q \div BMP_W) * SRC_W + SrcX(q % BMP_W))) } }

\* memset(bitmapBuffer, 0, sizeof(bitmapBuffer))
Memset(old) == ZeroBytes

\* The guard of line 182: !fb is excluded by the caller.
ConvertSkips(f) == f.buf = "NULL" \/ f.len < SRC_LEN

\* bitmapBuffer after convertFrameToBitmap(f), given its contents old before.
convertFrameToBitmap(f, old) ==
  IF ConvertSkips(f)
  THEN old
  ELSE LET z == Memset(old)
       IN  [i \in 0..(BMP_BYTES - 1) |->
              ByteOfBits(BitsOf(z[i]) \cup LitBits(f.buf, i))]

(* ---------------------------------------------------------------------- *)
(* The display (Adafruit_SH1106G)                                         *)
(* ---------------------------------------------------------------------- *)
\* display.clearDisplay(): the driver's buffer holds nothing.
ClearedBuf ==
  [text |-> "", stats |-> FALSE, lines |-> FALSE, bmp |-> FALSE, bits |-> ZeroBytes]

\* display.drawBitmap(0, 0, bits, BMP_W, BMP_H, 1): sets the pixels whose bit is 1.
DrawBitmap(buf, bits) ==
  [buf EXCEPT !.bmp = TRUE,
              !.bits = [i \in 0..(BMP_BYTES - 1) |->
                          IF buf.bits[i] = 0 THEN bits[i]
                          ELSE ByteOfBits(BitsOf(buf.bits[i]) \cup BitsOf(bits[i]))]]

\* The buffer displayStatus(message, showStats) builds and flushes.
StatusBuf(message, showStats) ==
  [ClearedBuf EXCEPT !.text = message, !.stats = showStats]

\* The last buffer testOLED() builds and flushes (horizontal lines).
TestBuf == [ClearedBuf EXCEPT !.lines = TRUE]

(* ---------------------------------------------------------------------- *)
(* printMemoryInfo                                                        *)
(* ---------------------------------------------------------------------- *)
\* What psramFound() and ESP.getFreePsram() return on a module: no PSRAM, a
\* PSRAM with nothing free, a PSRAM with free memory.
PsramAbsent  == [found |-> FALSE, free |-> 0]
PsramFaulty  == [found |-> TRUE, free |-> 0]
PsramHealthy == [found |-> TRUE, free |-> 4194304]
PsramKinds == {PsramAbsent, PsramFaulty, PsramHealthy}

\* The two PSRAM lines of printMemoryInfo.
WarningLine == "PSRAM total, free (WARNING: PSRAM may be faulty)"
AbsentLine == "PSRAM not found or disabled"

\* Lines 61-66: the PSRAM line printed for the module p.
MemoryLine(p) == IF p.found THEN WarningLine ELSE AbsentLine

(* ---------------------------------------------------------------------- *)
(* float: the error rate of the statistics report                         *)
(* ---------------------------------------------------------------------- *)
\* A float is m * 2^x with a 24-bit significand: m = 0 or 2^23 <= m < 2^24.
\* k tells a number from the results of a division by zero.
FLT_ONE == 2 ^ 23
FLT_TOP == 2 ^ 24

FloatZero == [k |-> "num", m |-> 0, x |-> 0]
FloatNaN == [k |-> "nan", m |-> 0, x |-> 0]
FloatInf == [k |-> "inf", m |-> 0, x |-> 0]

\* The least shift s with p / 2^s below 2^24, counted from s.
RECURSIVE ShiftOf(_, _)
ShiftOf(p, s) == IF p \div (2 ^ s) < FLT_TOP THEN s ELSE ShiftOf(p, s + 1)

\* p * 2^x with p > 0 brought to 24 bits, left-aligned.
RECURSIVE Norm(_, _)
Norm(p, x) == IF p < FLT_ONE THEN Norm(2 * p, x - 1) ELSE [k |-> "num", m |-> p, x |-> x]

\* p * 2^x rounded to a float: round to nearest, ties to even.
RoundFloat(p, x) ==
  IF p = 0 THEN FloatZero
  ELSE IF p < FLT_TOP THEN Norm(p, x)
  ELSE LET s == ShiftOf(p, 1)
           q == p \div (2 ^ s)
           r == p % (2 ^ s)
           h == 2 ^ (s - 1)
           up == r > h \/ (r = h /\ q % 2 = 1)
           q1 == IF up THEN q + 1 ELSE q
       IN  IF q1 = FLT_TOP THEN [k |-> "num", m |-> FLT_ONE, x |-> x + s + 1]
           ELSE [k |-> "num", m |-> q1, x |-> x + s]

\* (float)n of an unsigned n
FloatOf(n) == RoundFloat(n, 0)

\* n more binary digits of the quotient whose integer part is q with rest r.
RECURSIVE LongDiv(_, _, _, _)
LongDiv(q, r, d, n) ==
  IF n = 0 THEN << q, r >>
  ELSE IF 2 * r >= d THEN LongDiv(2 * q + 1, 2 * r - d, d, n - 1)
       ELSE LongDiv(2 * q, 2 * r, d, n - 1)

\* a / b in float: the quotient of the significands to 24 bits, rounded to
\* nearest, ties to even; x / 0 is an infinity and 0 / 0 a NaN.
FDiv(a, b) ==
  IF b.m = 0 THEN (IF a.m = 0 THEN FloatNaN ELSE FloatInf)
  ELSE IF a.m = 0 THEN FloatZero
  ELSE LET n == IF a.m >= b.m THEN 23 ELSE 24
           qr == LongDiv(a.m \div b.m, a.m % b.m, b.m, n)
           q == qr[1]
           r == qr[2]
           up == 2 * r > b.m \/ (2 * r = b.m /\ q % 2 = 1)
           q1 == IF up THEN q + 1 ELSE q
       IN  IF q1 = FLT_TOP THEN [k |-> "num", m |-> FLT_ONE, x |-> a.x - b.x - n + 1]
           ELSE [k |-> "num", m |-> q1, x |-> a.x - b.x - n]

\* a * 100.0f in float: 100 = 25 * 2^2.
TimesHundred(a) ==
  IF a.k # "num" THEN a ELSE RoundFloat(a.m * 25, a.x + 2)

\* The rate taken over the frames alone.
ErrorRateOfFrames(e, f) == TimesHundred(FDiv(FloatOf(e), FloatOf(f)))

\* Line 387: (float)errorCount / (frameCount + errorCount) * 100.0f
ErrorRate(e, f) == TimesHundred(FDiv(FloatOf(e), FloatOf(f + e)))

\* No statistics report yet.
NoReport == [frames |-> 0, errors |-> 0, rate |-> FloatZero, any |-> FALSE]

\* Lines 388-389: the report of the counters f and e.
ReportOf(f, e) == [frames |-> f, errors |-> e, rate |-> ErrorRate(e, f), any |-> TRUE]

(* ---------------------------------------------------------------------- *)
(* unsigned long: the millisecond clock of loop()                         *)
(* ---------------------------------------------------------------------- *)
\* An unsigned long is 32 bits wide; a value is the pair << high, low >> of its
\* 16-bit halves (the integers of the checker stop below 2^32).
HALF == 2 ^ 16

\* startTime and the reading at the pacing outside an iteration.
NoTime == << 0, 0 >>

\* millis() at the start of an iteration: 3100 ms after reset, and 20 ms before
\* the clock wraps around 2^32.
StartTimes == { << 0, 3100 >>, << HALF - 1, HALF - 20 >> }

\* Milliseconds between the two readings of millis() in one iteration; the last
\* one is a stall of 2^16 + 10 ms.
Elapsed == {0, 20, 49, 50, 65546}

\* t + e modulo 2^32, for 0 <= e < 2^31: the clock e ms after it read t.
Add32(t, e) ==
  LET lo == t[2] + (e % HALF)
  IN  << (t[1] + (e \div HALF) + (lo \div HALF)) % HALF, lo % HALF >>

\* A difference that stops at 0 when the clock has wrapped.
Sub32Saturating(a, b) ==
  IF a[1] < b[1] \/ (a[1] = b[1] /\ a[2] < b[2])
  THEN << 0, 0 >>
  ELSE << a[1] - b[1] - (IF a[2] < b[2] THEN 1 ELSE 0),
          (a[2] - b[2] + HALF) % HALF >>

\* Line 393: a - b in unsigned long, modulo 2^32.
Sub32(a, b) ==
  << (a[1] - b[1] - (IF a[2] < b[2] THEN 1 ELSE 0) + HALF) % HALF,
     (a[2] - b[2] + HALF) % HALF >>

\* Line 394: processingTime < FRAME_DELAY_MS.
PaceDue(pt) == pt[1] = 0 /\ pt[2] < FRAME_DELAY_MS

\* Lines 394-396: the arguments of the calls of delay, for processingTime pt.
PaceDelays(pt) == IF PaceDue(pt) THEN {FRAME_DELAY_MS - pt[2]} ELSE {}

\* Line 163: the factor of delay(attempt * 1000).
BACKOFF_STEP_MS == 1000

\* The same delay before every retry.
BackoffFlat(a) == BACKOFF_STEP_MS

\* Line 163: the progressive delay before the retry that follows attempt a, in ms.
Backoff(a) == a * BACKOFF_STEP_MS

VARIABLES
  pc,                 \* position of the flow of control
  cameraInitialized,  \* static bool cameraInitialized
  frameCount,         \* static uint32_t frameCount (far below 2^32 within the bounds)
  errorCount,         \* static uint32_t errorCount (at most ERROR_LIMIT + 1)
  bitmapBuffer,       \* static uint8_t bitmapBuffer[BMP_W * BMP_H / 8]
  attempt,            \* initCamera: int attempt
  err,                \* initCamera: esp_err_t err
  fb,                 \* processFrame: camera_fb_t* fb
  success,            \* loop: bool success
  dispBuf,            \* the display driver's buffer
  screen,             \* what the panel shows (the last flush)
  lastMsg,            \* the last line written to Serial
  probeFound,         \* Wire.endTransmission() == 0
  nBegin,             \* calls of display.begin
  beginFailed,        \* display.begin returned false
  nPowerCycle,        \* power-cycles of the sensor (PWDN high, then low)
  nInit,              \* calls of esp_camera_init
  nInitOk,            \* calls of esp_camera_init that returned ESP_OK
  nDeinit,            \* calls of esp_camera_deinit
  outstanding,        \* frames got from the driver and not yet returned
  iter,               \* loop() iterations started since the initial state
  psram,              \* the module's PSRAM: psramFound() and ESP.getFreePsram()
  backoff,            \* the last progressive delay of initCamera, in ms
  report,             \* the last statistics report written to Serial
  emitted,            \* the step just taken wrote to Serial
  startTime,          \* loop: unsigned long startTime
  paceTime,           \* loop: millis() as read at line 393
  slept               \* loop: the arguments of delay at line 395 in this iteration

vars ==
  << pc, cameraInitialized, frameCount, errorCount, bitmapBuffer, attempt, err,
     fb, success, dispBuf, screen, lastMsg, probeFound, nBegin, beginFailed,
     nPowerCycle, nInit, nInitOk, nDeinit, outstanding, iter, psram, backoff,
     report, emitted, startTime, paceTime, slept >>

\* The variables of each part, for UNCHANGED.
counterVars == << frameCount, errorCount >>
displayVars == << dispBuf, screen >>
bootVars    == << probeFound, nBegin, beginFailed, psram >>
initVars    == << attempt, err, nPowerCycle, nInit, nInitOk, nDeinit, backoff >>
frameVars   == << fb, success, outstanding, bitmapBuffer >>
loopVars    == << iter, report, startTime, paceTime, slept >>

(* ---------------------------------------------------------------------- *)
(* Initial state: the statics of lines 46-55 at reset, on the module p    *)
(* ---------------------------------------------------------------------- *)
InitOn(p) ==
  /\ pc = "boot"
  /\ cameraInitialized = FALSE
  /\ frameCount = 0
  /\ errorCount = 0
  /\ bitmapBuffer = ZeroBytes
  /\ attempt = 0
  /\ err = "NONE"
  /\ fb = NoFrame
  /\ success = FALSE
  /\ dispBuf = ClearedBuf
  /\ screen = ClearedBuf
  /\ lastMsg = ""
  /\ probeFound = FALSE
  /\ nBegin = 0
  /\ beginFailed = FALSE
  /\ nPowerCycle = 0
  /\ nInit = 0
  /\ nInitOk = 0
  /\ nDeinit = 0
  /\ outstanding = 0
  /\ iter = 0
  /\ psram = p
  /\ backoff = 0
  /\ report = NoReport
  /\ emitted = FALSE
  /\ startTime = NoTime
  /\ paceTime = NoTime
  /\ slept = {}

\* Reset on the module the README describes: a PSRAM with nothing free.
Init == InitOn(PsramFaulty)

\* Reset on any module.
InitBoot == \E p \in PsramKinds : InitOn(p)

(* ---------------------------------------------------------------------- *)
(* setup()                                                                *)
(* ---------------------------------------------------------------------- *)
\* Lines 300-313: banner, stabilization delay, memory report, Wire.begin.
SetupStart ==
  /\ pc = "boot"
  /\ emitted' = TRUE
  /\ pc' = "probe"
  /\ lastMsg' = "Initializing I2C"
  /\ UNCHANGED << cameraInitialized, counterVars, displayVars, bootVars, initVars,
                  frameVars, loopVars >>

\* Lines 315-322: the presence probe of the display address; only reported.
ProbeDisplay ==
  /\ pc = "probe"
  /\ emitted' = TRUE
  /\ \E found \in BOOLEAN :
       /\ probeFound' = found
       /\ lastMsg' = IF found THEN "I2C device found" ELSE "Check OLED wiring!"
  /\ pc' = "begin"
  /\ UNCHANGED << cameraInitialized, counterVars, displayVars, nBegin, beginFailed,
                  psram, initVars, frameVars, loopVars >>

\* The result of display.begin ignored.
AfterBeginIgnored(ok) == "oled_ok"

\* Where setup() goes after display.begin(OLED_ADDR) returned ok.
AfterBegin(ok) == IF ok THEN "oled_ok" ELSE "halt"

\* Lines 324-332: display.begin and the branch on its result.
DisplayBegin ==
  /\ pc = "begin"
  /\ emitted' = TRUE
  /\ \E ok \in BOOLEAN :
       /\ nBegin' = nBegin + 1
       /\ beginFailed' = ~ok
       /\ pc' = AfterBegin(ok)
       /\ lastMsg' = IF ok THEN "Initializing OLED display..." ELSE "Check connections"
  /\ UNCHANGED << cameraInitialized, counterVars, displayVars, probeFound, psram,
                  initVars, frameVars, loopVars >>

\* Lines 333-336: while (true) { delay(5000); Serial.println(...); }
HaltLoop ==
  /\ pc = "halt"
  /\ emitted' = TRUE
  /\ pc' = "halt"
  /\ lastMsg' = "OLED init failed - system halted"
  /\ UNCHANGED << cameraInitialized, counterVars, displayVars, bootVars, initVars,
                  frameVars, loopVars >>

\* Lines 339-341: clearDisplay and flush of the empty buffer.
OledReady ==
  /\ pc = "oled_ok"
  /\ emitted' = TRUE
  /\ pc' = "testOLED"
  /\ lastMsg' = "OLED initialized successfully!"
  /\ dispBuf' = ClearedBuf
  /\ screen' = ClearedBuf
  /\ UNCHANGED << cameraInitialized, counterVars, bootVars, initVars, frameVars,
                  loopVars >>

\* Lines 262-297: testOLED(), three cleared-and-flushed screens; the last stays.
TestOLED ==
  /\ pc = "testOLED"
  /\ emitted' = TRUE
  /\ pc' = "status_init"
  /\ lastMsg' = "OLED test completed successfully!"
  /\ dispBuf' = TestBuf
  /\ screen' = TestBuf
  /\ UNCHANGED << cameraInitialized, counterVars, bootVars, initVars, frameVars,
                  loopVars >>

\* Line 347: displayStatus("Initializing camera...").
StatusInit ==
  /\ pc = "status_init"
  /\ emitted' = FALSE
  /\ pc' = "init_power"
  /\ dispBuf' = StatusBuf("Initializing camera...", FALSE)
  /\ screen' = StatusBuf("Initializing camera...", FALSE)
  /\ UNCHANGED << cameraInitialized, counterVars, lastMsg, bootVars, initVars,
                  frameVars, loopVars >>

(* ---------------------------------------------------------------------- *)
(* initCamera()                                                           *)
(* ---------------------------------------------------------------------- *)
\* Lines 71-108: the banner and printMemoryInfo, the configuration record and
\* the power-cycle of the sensor; then the for loop starts with attempt = 1.
InitPowerCycle ==
  /\ pc = "init_power"
  /\ emitted' = TRUE
  /\ nPowerCycle' = nPowerCycle + 1
  /\ attempt' = 1
  /\ pc' = "init_try"
  /\ lastMsg' = MemoryLine(psram)
  /\ UNCHANGED << cameraInitialized, counterVars, displayVars, bootVars, err, nInit,
                  nInitOk, nDeinit, backoff, frameVars, loopVars >>

\* An off-by-one for condition: one attempt too few.
ForCondShort(a) == a < MAX_RETRIES

\* Line 111: the condition of the for loop.
ForCond(a) == a <= MAX_RETRIES

\* Line 161: whether a failed attempt is followed by a backoff and a deinit.
RetryAgain(a) == a < MAX_RETRIES

\* A missing "return true": success falls through to the failure handling.
InitTargetNoReturn(e) == "init_failed"

\* Lines 116-144: ESP_OK leads to the return of true, anything else to the
\* failure handling.
InitTarget(e) == IF e = "ESP_OK" THEN "ready" ELSE "init_failed"

\* Lines 111-142: one esp_camera_init request; on ESP_OK the sensor is tuned,
\* cameraInitialized is set and initCamera returns true. Lines 171-177: when
\* the for condition fails, initCamera returns false.
CameraInitTry ==
  /\ pc = "init_try"
  /\ emitted' = TRUE
  /\ IF ForCond(attempt)
     THEN \E e \in {"ESP_OK"} \cup InitErrors :
            /\ nInit' = nInit + 1
            /\ err' = e
            /\ pc' = InitTarget(e)
            /\ IF e = "ESP_OK"
               THEN /\ cameraInitialized' = TRUE
                    /\ nInitOk' = nInitOk + 1
                    /\ lastMsg' = "Camera sensor configured for stability"
               ELSE /\ lastMsg' = "Camera init attempt failed"
                    /\ UNCHANGED << cameraInitialized, nInitOk >>
     ELSE /\ pc' = "cam_failed"
          /\ lastMsg' = "Camera initialization failed after all attempts!"
          /\ UNCHANGED << cameraInitialized, nInit, nInitOk, err >>
  /\ UNCHANGED << counterVars, displayVars, bootVars, attempt, nPowerCycle, nDeinit,
                  backoff, frameVars, loopVars >>

\* Lines 144-169: the failure is classified and reported; before the last
\* attempt a backoff of attempt seconds and esp_camera_deinit; attempt++.
CameraInitFailed ==
  /\ pc = "init_failed"
  /\ emitted' = TRUE
  /\ IF RetryAgain(attempt)
     THEN /\ backoff' = Backoff(attempt)
          /\ nDeinit' = nDeinit + 1
          /\ lastMsg' = "Retrying"
     ELSE /\ lastMsg' = "failure classified"
          /\ UNCHANGED << nDeinit, backoff >>
  /\ attempt' = attempt + 1
  /\ pc' = "init_try"
  /\ UNCHANGED << cameraInitialized, counterVars, displayVars, bootVars, err,
                  nPowerCycle, nInit, nInitOk, frameVars, loopVars >>

\* The failure reported without the endless loop: setup() goes on to the ready
\* screen and returns.
CameraFailedFallsThrough ==
  /\ pc = "cam_failed"
  /\ emitted' = TRUE
  /\ pc' = "ready"
  /\ dispBuf' = StatusBuf("Camera FAILED!", FALSE)
  /\ screen' = StatusBuf("Camera FAILED!", FALSE)
  /\ lastMsg' = "3. Return/exchange if recently purchased"
  /\ UNCHANGED << cameraInitialized, counterVars, bootVars, initVars, frameVars,
                  loopVars >>

\* Lines 350-358: initCamera returned false: status screen and explanation.
CameraFailed ==
  /\ pc = "cam_failed"
  /\ emitted' = TRUE
  /\ pc' = "fatal_loop"
  /\ dispBuf' = StatusBuf("Camera FAILED!", FALSE)
  /\ screen' = StatusBuf("Camera FAILED!", FALSE)
  /\ lastMsg' = "3. Return/exchange if recently purchased"
  /\ UNCHANGED << cameraInitialized, counterVars, bootVars, initVars, frameVars,
                  loopVars >>

\* A fatal cycle that starts initCamera over after showing the screen.
FatalCycleRetries ==
  /\ pc = "fatal_loop"
  /\ emitted' = FALSE
  /\ pc' = "init_power"
  /\ dispBuf' = StatusBuf("Hardware DEFECT!", TRUE)
  /\ screen' = StatusBuf("Hardware DEFECT!", TRUE)
  /\ UNCHANGED << cameraInitialized, counterVars, lastMsg, bootVars, initVars,
                  frameVars, loopVars >>

\* Lines 360-364: while (true) { delay; displayStatus("Hardware DEFECT!...", true); delay; }
FatalCycle ==
  /\ pc = "fatal_loop"
  /\ emitted' = FALSE
  /\ pc' = "fatal_loop"
  /\ dispBuf' = StatusBuf("Hardware DEFECT!", TRUE)
  /\ screen' = StatusBuf("Hardware DEFECT!", TRUE)
  /\ UNCHANGED << cameraInitialized, counterVars, lastMsg, bootVars, initVars,
                  frameVars, loopVars >>

\* Lines 367-377: the ready screen and banner; setup() returns and loop() runs.
SystemReady ==
  /\ pc = "ready"
  /\ emitted' = TRUE
  /\ pc' = "loop_start"
  /\ dispBuf' = StatusBuf("System ready!", FALSE)
  /\ screen' = StatusBuf("System ready!", FALSE)
  /\ lastMsg' = "Starting video stream..."
  /\ UNCHANGED << cameraInitialized, counterVars, bootVars, initVars, frameVars,
                  loopVars >>

(* ---------------------------------------------------------------------- *)
(* processFrame()                                                         *)
(* ---------------------------------------------------------------------- *)
\* Line 243: the validation of the frame's declared size and format.
Mismatch(f) == f.width # SRC_W \/ f.height # SRC_H \/ f.format # "GRAYSCALE"

\* Lines 380-383 and 232-234: startTime is taken, processFrame is entered and
\* returns false at once when the camera is not initialized.
LoopStart ==
  /\ pc = "loop_start"
  /\ emitted' = FALSE
  /\ iter < MaxIter
  /\ iter' = iter + 1
  /\ \E t \in StartTimes : startTime' = t
  /\ IF ~cameraInitialized
     THEN /\ success' = FALSE
          /\ pc' = "stats"
     ELSE /\ pc' = "pf_get"
          /\ UNCHANGED success
  /\ UNCHANGED << cameraInitialized, counterVars, displayVars, lastMsg, bootVars,
                  initVars, fb, outstanding, bitmapBuffer, report, paceTime, slept >>

\* A NULL frame that blanks the bitmap: memset before the error return.
PfGetBlanks ==
  /\ pc = "pf_get"
  /\ emitted' = FALSE
  /\ \E f \in Frames \cup {NoFrame} :
       /\ fb' = f
       /\ IF f = NoFrame
          THEN /\ errorCount' = errorCount + 1
               /\ success' = FALSE
               /\ bitmapBuffer' = Memset(bitmapBuffer)
               /\ pc' = "stats"
               /\ UNCHANGED outstanding
          ELSE /\ outstanding' = outstanding + 1
               /\ pc' = "pf_validate"
               /\ UNCHANGED << errorCount, success, bitmapBuffer >>
  /\ UNCHANGED << cameraInitialized, frameCount, displayVars, lastMsg, bootVars,
                  initVars, loopVars >>

\* A NULL frame taken as a lost camera: the camera is marked uninitialized.
PfGetDropsCamera ==
  /\ pc = "pf_get"
  /\ emitted' = FALSE
  /\ \E f \in Frames \cup {NoFrame} :
       /\ fb' = f
       /\ IF f = NoFrame
          THEN /\ errorCount' = errorCount + 1
               /\ success' = FALSE
               /\ cameraInitialized' = FALSE
               /\ pc' = "stats"
               /\ UNCHANGED outstanding
          ELSE /\ outstanding' = outstanding + 1
               /\ pc' = "pf_validate"
               /\ UNCHANGED << errorCount, success, cameraInitialized >>
  /\ UNCHANGED << frameCount, displayVars, lastMsg, bootVars,
                  initVars, bitmapBuffer, loopVars >>

\* Lines 236-240: esp_camera_fb_get; a NULL frame counts an error and returns false.
PfGet ==
  /\ pc = "pf_get"
  /\ emitted' = FALSE
  /\ \E f \in Frames \cup {NoFrame} :
       /\ fb' = f
       /\ IF f = NoFrame
          THEN /\ errorCount' = errorCount + 1
               /\ success' = FALSE
               /\ pc' = "stats"
               /\ UNCHANGED outstanding
          ELSE /\ outstanding' = outstanding + 1
               /\ pc' = "pf_validate"
               /\ UNCHANGED << errorCount, success >>
  /\ UNCHANGED << cameraInitialized, frameCount, displayVars, lastMsg, bootVars,
                  initVars, bitmapBuffer, loopVars >>

\* The mismatch path without esp_camera_fb_return: the frame is never given back.
PfValidateLeaks ==
  /\ pc = "pf_validate"
  /\ emitted' = FALSE
  /\ IF Mismatch(fb)
     THEN /\ errorCount' = errorCount + 1
          /\ success' = FALSE
          /\ pc' = "stats"
     ELSE /\ pc' = "pf_convert"
          /\ UNCHANGED << errorCount, success >>
  /\ UNCHANGED << cameraInitialized, frameCount, displayVars, lastMsg, bootVars,
                  initVars, fb, outstanding, bitmapBuffer, loopVars >>

\* The mismatch path treated as fatal: the sketch halts.
PfValidateHalts ==
  /\ pc = "pf_validate"
  /\ emitted' = FALSE
  /\ IF Mismatch(fb)
     THEN /\ outstanding' = outstanding - 1
          /\ errorCount' = errorCount + 1
          /\ success' = FALSE
          /\ pc' = "halt"
     ELSE /\ pc' = "pf_convert"
          /\ UNCHANGED << outstanding, errorCount, success >>
  /\ UNCHANGED << cameraInitialized, frameCount, displayVars, lastMsg, bootVars,
                  initVars, fb, bitmapBuffer, loopVars >>

\* Lines 243-247: on a mismatch the frame is returned, an error is counted and
\* processFrame returns false.
PfValidate ==
  /\ pc = "pf_validate"
  /\ emitted' = FALSE
  /\ IF Mismatch(fb)
     THEN /\ outstanding' = outstanding - 1
          /\ errorCount' = errorCount + 1
          /\ success' = FALSE
          /\ pc' = "stats"
     ELSE /\ pc' = "pf_convert"
          /\ UNCHANGED << outstanding, errorCount, success >>
  /\ UNCHANGED << cameraInitialized, frameCount, displayVars, lastMsg, bootVars,
                  initVars, fb, bitmapBuffer, loopVars >>

\* Line 249: convertFrameToBitmap(fb).
PfConvert ==
  /\ pc = "pf_convert"
  /\ emitted' = FALSE
  /\ bitmapBuffer' = convertFrameToBitmap(fb, bitmapBuffer)
  /\ pc' = "pf_return"
  /\ UNCHANGED << cameraInitialized, counterVars, displayVars, lastMsg, bootVars,
                  initVars, fb, success, outstanding, loopVars >>

\* The frame kept while it is displayed: no esp_camera_fb_return before the clear.
PfReturnDeferred ==
  /\ pc = "pf_return"
  /\ emitted' = FALSE
  /\ pc' = "pf_clear"
  /\ UNCHANGED << cameraInitialized, counterVars, displayVars, lastMsg, bootVars,
                  initVars, frameVars, loopVars >>

\* Line 250: esp_camera_fb_return(fb).
PfReturn ==
  /\ pc = "pf_return"
  /\ emitted' = FALSE
  /\ outstanding' = outstanding - 1
  /\ pc' = "pf_clear"
  /\ UNCHANGED << cameraInitialized, counterVars, displayVars, lastMsg, bootVars,
                  initVars, fb, success, bitmapBuffer, loopVars >>

\* processFrame without the clearDisplay: the bitmap is drawn over what is there.
PfClearSkipped ==
  /\ pc = "pf_clear"
  /\ emitted' = FALSE
  /\ pc' = "pf_draw"
  /\ UNCHANGED << cameraInitialized, counterVars, displayVars, lastMsg, bootVars,
                  initVars, frameVars, loopVars >>

\* Line 253: display.clearDisplay().
PfClear ==
  /\ pc = "pf_clear"
  /\ emitted' = FALSE
  /\ dispBuf' = ClearedBuf
  /\ pc' = "pf_draw"
  /\ UNCHANGED << cameraInitialized, counterVars, screen, lastMsg, bootVars, initVars,
                  frameVars, loopVars >>

\* Line 254: display.drawBitmap(0, 0, bitmapBuffer, BMP_W, BMP_H, 1).
PfDraw ==
  /\ pc = "pf_draw"
  /\ emitted' = FALSE
  /\ dispBuf' = DrawBitmap(dispBuf, bitmapBuffer)
  /\ pc' = "pf_flush"
  /\ UNCHANGED << cameraInitialized, counterVars, screen, lastMsg, bootVars, initVars,
                  frameVars, loopVars >>

\* Line 255: display.display().
PfFlush ==
  /\ pc = "pf_flush"
  /\ emitted' = FALSE
  /\ screen' = dispBuf
  /\ pc' = "pf_count"
  /\ UNCHANGED << cameraInitialized, counterVars, dispBuf, lastMsg, bootVars, initVars,
                  frameVars, loopVars >>

\* The return of true without frameCount++.
PfCountForgets ==
  /\ pc = "pf_count"
  /\ emitted' = FALSE
  /\ success' = TRUE
  /\ pc' = "stats"
  /\ UNCHANGED << cameraInitialized, counterVars, displayVars, lastMsg, bootVars,
                  initVars, fb, outstanding, bitmapBuffer, loopVars >>

\* Lines 257-258: frameCount++ and return true.
PfCount ==
  /\ pc = "pf_count"
  /\ emitted' = FALSE
  /\ frameCount' = frameCount + 1
  /\ success' = TRUE
  /\ pc' = "stats"
  /\ UNCHANGED << cameraInitialized, errorCount, displayVars, lastMsg, bootVars,
                  initVars, fb, outstanding, bitmapBuffer, loopVars >>

(* ---------------------------------------------------------------------- *)
(* loop()                                                                 *)
(* ---------------------------------------------------------------------- *)
\* Line 386: the condition of the periodic statistics report.
StatsDue(f) == f > 0 /\ f % STATS_PERIOD = 0

\* Lines 385-390: the statistics report.
Stats ==
  /\ pc = "stats"
  /\ emitted' = StatsDue(frameCount)
  /\ IF StatsDue(frameCount)
     THEN /\ report' = ReportOf(frameCount, errorCount)
          /\ lastMsg' = "Stats"
     ELSE UNCHANGED << report, lastMsg >>
  /\ pc' = "pace"
  /\ UNCHANGED << cameraInitialized, counterVars, displayVars, bootVars, initVars,
                  frameVars, iter, startTime, paceTime, slept >>

\* Lines 392-399: the second reading of the clock, e ms after the first, the
\* pacing delay and yield().
Pace ==
  /\ pc = "pace"
  /\ emitted' = FALSE
  /\ \E e \in Elapsed :
       /\ paceTime' = Add32(startTime, e)
       /\ slept' = PaceDelays(Sub32(Add32(startTime, e), startTime))
  /\ pc' = "reset"
  /\ UNCHANGED << cameraInitialized, counterVars, displayVars, lastMsg, bootVars,
                  initVars, frameVars, iter, report, startTime >>

\* The reset one error early.
ResetDueEarly(e) == e >= ERROR_LIMIT

\* Line 402: the condition of the reset of the error counter.
ResetDue(e) == e > ERROR_LIMIT

\* Lines 401-406: the reset of the error counter; loop() returns (its locals
\* success, startTime and processingTime and, in processFrame, fb are gone) and
\* is called again.
ResetCheck ==
  /\ pc = "reset"
  /\ emitted' = ResetDue(errorCount)
  /\ IF ResetDue(errorCount)
     THEN /\ errorCount' = 0
          /\ lastMsg' = "Resetting error counter..."
     ELSE UNCHANGED << errorCount, lastMsg >>
  /\ success' = FALSE
  /\ fb' = NoFrame
  /\ startTime' = NoTime
  /\ paceTime' = NoTime
  /\ slept' = {}
  /\ pc' = "loop_start"
  /\ UNCHANGED << cameraInitialized, frameCount, displayVars, bootVars, initVars,
                  outstanding, bitmapBuffer, iter, report >>

(* ---------------------------------------------------------------------- *)
(* Specifications                                                         *)
(* ---------------------------------------------------------------------- *)
SetupNext ==
  \/ SetupStart \/ ProbeDisplay \/ DisplayBegin \/ HaltLoop \/ OledReady
  \/ TestOLED \/ StatusInit \/ InitPowerCycle \/ CameraInitTry \/ CameraInitFailed
  \/ CameraFailed \/ FatalCycle \/ SystemReady

LoopNext ==
  \/ LoopStart \/ PfGet \/ PfValidate \/ PfConvert \/ PfReturn \/ PfClear
  \/ PfDraw \/ PfFlush \/ PfCount \/ Stats \/ Pace \/ ResetCheck

Next == SetupNext \/ LoopNext

\* The sketch from reset.
Spec == Init /\ [][Next]_vars

\* The sketch from reset, with the processor always executing the next statement.
FairSpec == Spec /\ WF_vars(Next)

\* Values of frameCount and errorCount at the start of a loop() iteration after a
\* long run: any frameCount, and any errorCount up to ERROR_LIMIT, can be reached.
StartFrames == {0, 1, 99, 100, 999}
StartErrors == {0, 1, 50, 999, 1000}

\* The start of a loop() iteration in steady state: the first attempt of
\* initCamera succeeded, and every frame so far, if any, was a dark one.
InitLoop ==
  /\ pc = "loop_start"
  /\ cameraInitialized = TRUE
  /\ frameCount \in StartFrames
  /\ errorCount \in StartErrors
  /\ bitmapBuffer = ZeroBytes
  /\ attempt = 1
  /\ err = "ESP_OK"
  /\ fb = NoFrame
  /\ success = FALSE
  /\ dispBuf = IF frameCount = 0 THEN StatusBuf("System ready!", FALSE)
                                ELSE DrawBitmap(ClearedBuf, ZeroBytes)
  /\ screen = dispBuf
  /\ lastMsg = IF frameCount >= STATS_PERIOD THEN "Stats" ELSE "Starting video stream..."
  /\ probeFound = TRUE
  /\ nBegin = 1
  /\ beginFailed = FALSE
  /\ nPowerCycle = 1
  /\ nInit = 1
  /\ nInitOk = 1
  /\ nDeinit = 0
  /\ outstanding = 0
  /\ iter = 0
  /\ psram = PsramFaulty
  /\ backoff = 0
  /\ report = IF frameCount >= STATS_PERIOD
              THEN ReportOf(frameCount - (frameCount % STATS_PERIOD), errorCount)
              ELSE NoReport
  /\ emitted = FALSE
  /\ startTime = NoTime
  /\ paceTime = NoTime
  /\ slept = {}

\* loop() in steady state.
SpecLoop == InitLoop /\ [][LoopNext]_vars

\* setup() from reset on any module, up to its return or its endless loops; the
\* processor always executes the next statement.
SpecBoot == InitBoot /\ [][SetupNext]_vars /\ WF_vars(SetupNext)

(* ---------------------------------------------------------------------- *)
(* DeviceState of the design, read off the position of the sketch         *)
(* ---------------------------------------------------------------------- *)
LoopPcs ==
  { "loop_start", "pf_get", "pf_validate", "pf_convert", "pf_return", "pf_clear",
    "pf_draw", "pf_flush", "pf_count", "stats", "pace", "reset" }

\* initCamera returned false: lines 350-365.
CameraFailedFatal == pc \in {"cam_failed", "fatal_loop"}

\* The halt of lines 333-336.
DisplayFailedFatal == pc = "halt"

\* initCamera returned true (line 140 set the flag): lines 367-377 and loop().
Streaming == cameraInitialized

\* initCamera has returned to setup().
InitCameraReturned == pc \in {"cam_failed", "fatal_loop", "ready"} \cup LoopPcs

(* ---------------------------------------------------------------------- *)
(* Claims                                                                 *)
(* ---------------------------------------------------------------------- *)

\* C1: when every esp_camera_init request fails, initCamera makes exactly
\* MAX_RETRIES requests and returns false: the sketch is then in
\* CameraFailedFatal with cameraInitialized false, and no state after the
\* MAX_RETRIES-th failure is Streaming or inside loop().
C1_AllFailuresExhaustRetries ==
  /\ nInit <= MAX_RETRIES
  /\ (InitCameraReturned /\ nInitOk = 0) =>
        /\ nInit = MAX_RETRIES
        /\ CameraFailedFatal
        /\ ~cameraInitialized
  /\ (nInit - nInitOk = MAX_RETRIES) =>
        /\ ~Streaming
        /\ pc \in {"init_failed", "init_try", "cam_failed", "fatal_loop"}
        /\ iter = 0

\* The fatal cycle runs after MAX_RETRIES failed requests.
C1_Witness ==
  /\ pc = "fatal_loop"
  /\ nInit = MAX_RETRIES
  /\ nInitOk = 0
  /\ screen = StatusBuf("Hardware DEFECT!", TRUE)

\* C2: when attempt k succeeds after k-1 failures, cameraInitialized is true,
\* initCamera has returned true (setup goes on to the ready screen and loop()),
\* and the successful request was the last one: k requests, k-1 deinits, one
\* power-cycle, whatever happens later.
C2_SuccessGoesToStreaming ==
  (nInitOk >= 1) =>
     /\ nInitOk = 1
     /\ cameraInitialized
     /\ err = "ESP_OK"
     /\ pc \in {"ready"} \cup LoopPcs
     /\ attempt \in 1..MAX_RETRIES
     /\ nInit = attempt
     /\ nDeinit = attempt - 1
     /\ nPowerCycle = 1

\* The last attempt succeeded and the pipeline has processed a frame.
C2_Witness ==
  /\ nInitOk = 1
  /\ attempt = MAX_RETRIES
  /\ nInit = MAX_RETRIES
  /\ frameCount = 1

\* C3: when display.begin fails the sketch halts for good: display.begin was
\* called once, the camera is never powered or initialized, no frame is ever
\* acquired, and the position never leaves the halt loop.
C3_DisplayFailureHalts ==
  beginFailed =>
     /\ pc = "halt"
     /\ nBegin = 1
     /\ nPowerCycle = 0
     /\ nInit = 0
     /\ ~cameraInitialized
     /\ iter = 0
     /\ fb = NoFrame
     /\ outstanding = 0
     /\ frameCount = 0
     /\ errorCount = 0

\* The halt loop has gone round at least once.
C3_Witness ==
  /\ beginFailed
  /\ pc = "halt"
  /\ lastMsg = "OLED init failed - system halted"

\* C4: once cameraInitialized is true it stays true, and no step taken while
\* it is true calls esp_camera_init or esp_camera_deinit or power-cycles the
\* sensor.
C4_StreamingIsTerminal ==
  [][ cameraInitialized =>
        /\ cameraInitialized'
        /\ nInit' = nInit
        /\ nDeinit' = nDeinit
        /\ nPowerCycle' = nPowerCycle ]_vars

\* Streaming after both a failed and a successful iteration.
C4_Witness ==
  /\ cameraInitialized
  /\ errorCount >= 1
  /\ frameCount >= 1
  /\ pc = "loop_start"

\* C5: CameraFailedFatal is absorbing: in it the camera is not initialized and
\* loop() has never run, and every step from it stays in it and makes no
\* esp_camera_init request.
C5_CameraFatalIsAbsorbing ==
  /\ [](CameraFailedFatal =>
          /\ ~cameraInitialized
          /\ nInit = MAX_RETRIES
          /\ iter = 0
          /\ fb = NoFrame
          /\ frameCount = 0
          /\ errorCount = 0)
  /\ [][ CameraFailedFatal =>
           /\ CameraFailedFatal'
           /\ nInit' = nInit
           /\ nPowerCycle' = nPowerCycle ]_vars

\* The fatal cycle has shown its screen and is about to go round again.
C5_Witness ==
  /\ pc = "fatal_loop"
  /\ screen.stats
  /\ err = "ESP_ERR_NO_MEM"

\* Bit (7 - x mod 8) of byte (y*128 + x) div 8 of a bitmap.
ClaimBitAt(bits, x, y) == (bits[(y * 128 + x) \div 8] \div (2 ^ (7 - (x % 8)))) % 2

\* src[floor(y*96/64)*96 + floor(x*96/128)] of the image named c.
ClaimSample(c, x, y) == Pixel(c, ((y * 96) \div 64) * 96 + ((x * 96) \div 128))

\* The bitmap holds, pixel by pixel, the thresholded nearest-neighbour sample of c.
ClaimIsConversionOf(bits, c) ==
  \A x \in 0..127 : \A y \in 0..63 :
    (ClaimBitAt(bits, x, y) = 1) <=> (ClaimSample(c, x, y) > BRIGHTNESS_THRESHOLD)

\* C6: right after convertFrameToBitmap on a 96x96 grayscale frame with a buffer
\* of 96*96 bytes, destination bit (x, y) is 1 exactly when the sampled source
\* pixel is strictly above the threshold; a uniform source above the threshold
\* gives all 0xFF bytes, one at or below it all 0x00 bytes.
C6_ConversionIsThresholdedSample ==
  (pc = "pf_return" /\ ~Mismatch(fb) /\ fb.buf # "NULL" /\ fb.len >= 96 * 96) =>
     /\ ClaimIsConversionOf(bitmapBuffer, fb.buf)
     /\ (\A i \in 0..(96 * 96 - 1) : Pixel(fb.buf, i) > BRIGHTNESS_THRESHOLD)
           => \A j \in 0..1023 : bitmapBuffer[j] = 255
     /\ (\A i \in 0..(96 * 96 - 1) : Pixel(fb.buf, i) <= BRIGHTNESS_THRESHOLD)
           => \A j \in 0..1023 : bitmapBuffer[j] = 0

\* A non-uniform frame was converted: some byte mixes lit and unlit pixels, and
\* some sampled pixel equals the threshold and is unlit.
C6_Witness ==
  /\ pc = "pf_return"
  /\ fb = GoodFrame("ramp")
  /\ \E j \in 0..1023 : bitmapBuffer[j] \notin {0, 255}
  /\ \E x \in 0..127 : \E y \in 0..63 :
       /\ ClaimSample("ramp", x, y) = BRIGHTNESS_THRESHOLD
       /\ ClaimBitAt(bitmapBuffer, x, y) = 0

\* C7: whenever an iteration has drawn the bitmap and been recorded as a
\* successful frame, the bitmap on the screen (and in bitmapBuffer) is the
\* conversion of the frame acquired in that iteration, whatever the length of
\* the frame's buffer.
C7_DrawnBitmapIsThisFrame ==
  (pc = "stats" /\ success /\ fb.buf # "NULL") =>
     /\ screen.bmp
     /\ screen.bits = bitmapBuffer
     /\ ClaimIsConversionOf(screen.bits, fb.buf)

\* C8: a frame is outstanding exactly between esp_camera_fb_get returning it and
\* the esp_camera_fb_return of the same processFrame call: never two at once,
\* never one returned twice, none when processFrame has returned or the next
\* acquisition is due.
C8_OneFrameBorrowed ==
  /\ outstanding \in {0, 1}
  /\ (outstanding = 1) <=> (pc \in {"pf_validate", "pf_convert", "pf_return"})

\* processFrame has returned through the validation-failure path.
C8_Witness ==
  /\ pc = "stats"
  /\ fb \in MismatchFrames
  /\ ~success
  /\ outstanding = 0

\* C9: after any failed iteration the sketch is still Streaming in loop() (no
\* halt, no second initialization); from the end of processFrame the sketch is
\* never stuck and every step leads on through the statistics, the pacing and
\* the reset check to the start of the next iteration and its acquisition
\* (within the iterations explored).
C9_TransientErrorsStayLocal ==
  /\ []((errorCount > 0) =>
          /\ cameraInitialized
          /\ pc \in LoopPcs
          /\ nInitOk = 1
          /\ nPowerCycle = 1)
  /\ []((pc \in {"stats", "pace", "reset"} \/ (pc = "loop_start" /\ iter < MaxIter))
          => ENABLED Next)
  /\ [][ /\ (pc = "stats" => pc' = "pace")
         /\ (pc = "pace" => pc' = "reset")
         /\ (pc = "reset" => pc' = "loop_start")
         /\ (pc = "loop_start" => pc' = "pf_get") ]_vars

\* Two consecutive failed iterations, then the next acquisition attempt.
C9_Witness ==
  /\ pc = "pf_get"
  /\ errorCount = 2
  /\ frameCount = 0
  /\ cameraInitialized

\* C10: errorCount never passes ERROR_LIMIT + 1 and is at most ERROR_LIMIT when
\* an iteration starts; it only ever drops by the reset, which happens at the
\* end of every iteration that ends with errorCount above ERROR_LIMIT, never at
\* ERROR_LIMIT or below, and leaves frameCount as it is.
C10_ResetExactlyAboveLimit ==
  /\ [](/\ errorCount <= ERROR_LIMIT + 1
        /\ (pc \in {"loop_start", "pf_get"} => errorCount <= ERROR_LIMIT))
  /\ [][ (errorCount' # errorCount /\ errorCount' # errorCount + 1) =>
            /\ pc = "reset"
            /\ errorCount > ERROR_LIMIT
            /\ errorCount' = 0
            /\ frameCount' = frameCount ]_vars
  /\ [][ (pc = "reset" /\ errorCount > ERROR_LIMIT) => errorCount' = 0 ]_vars

\* The reset has just happened, with frames counted before it.
C10_Witness ==
  /\ pc = "loop_start"
  /\ lastMsg = "Resetting error counter..."
  /\ errorCount = 0
  /\ frameCount = 100

\* C11 (as stated): every pipeline iteration increments frameCount by one,
\* whether processFrame returned true or false, and increments errorCount by
\* one exactly when it returned false.
C11_EveryIterationCountsAFrame ==
  [][(pc' = "stats" /\ pc # "stats") =>
        /\ frameCount' = frameCount + 1
        /\ errorCount' = IF success' THEN errorCount ELSE errorCount + 1]_vars

\* C11 (amended): every pipeline iteration increments exactly one of the two
\* counters by one: frameCount when processFrame returned true, errorCount
\* when it returned false (no frame, or a validation mismatch); frameCount
\* changes at no other step, and errorCount only at its reset. From reset,
\* frameCount + errorCount is the number of iterations whose processFrame
\* has returned.
C11_FramesCountSuccesses ==
  /\ []((pc \in {"stats", "pace", "reset"}) => frameCount + errorCount = iter)
  /\ [][(pc' = "stats" /\ pc # "stats") =>
           IF success'
           THEN frameCount' = frameCount + 1 /\ errorCount' = errorCount
           ELSE /\ frameCount' = frameCount /\ errorCount' = errorCount + 1
                /\ (fb' = NoFrame \/ Mismatch(fb'))]_vars
  /\ [][(pc' # "stats") =>
           /\ frameCount' = frameCount
           /\ (errorCount' = errorCount \/ (pc = "reset" /\ errorCount' = 0))]_vars

\* Three iterations have returned: one frame shown, two failures.
C11_Witness ==
  /\ pc = "stats"
  /\ ~success
  /\ iter = 3
  /\ frameCount = 1
  /\ errorCount = 2

\* 2^n modulo d
RECURSIVE ClaimPow2Mod(_, _)
ClaimPow2Mod(n, d) == IF n = 0 THEN 1 % d ELSE (2 * ClaimPow2Mod(n - 1, d)) % d

\* floor(r * 2^n / d) for 0 <= r < d, one binary digit at a time
RECURSIVE ClaimFraction(_, _, _)
ClaimFraction(r, d, n) ==
  IF n = 0 THEN 0
  ELSE 2 * ClaimFraction(r, d, n - 1)
       + (IF 2 * ((r * ClaimPow2Mod(n - 1, d)) % d) >= d THEN 1 ELSE 0)

\* floor(100 * e / d * 2^n): the exact rate in units of 2^-n percent
ClaimScaledRate(e, d, n) ==
  ((100 * e) \div d) * (2 ^ n) + ClaimFraction((100 * e) % d, d, n)

\* floor of the float r in hundredths of a percent
ClaimHundredths(r) == (r.m * 100) \div (2 ^ (0 - r.x))

ClaimAbs(a) == IF a < 0 THEN 0 - a ELSE a

\* C12: the error rate of a statistics report is 100 * e / (f + e) for the
\* counters f = frameCount and e = errorCount at the report, to the precision
\* of float: exactly 0 when e = 0, else within two units in the last place
\* of the float and within one hundredth of floor(10000 * e / (f + e))
\* hundredths; f = 1000, e = 50 gives 476 hundredths. The quotient is only
\* taken at a report, and a report has f > 0: none is made at frameCount 0,
\* so the divisor f + e is never 0 and the rate is a number.
C12_ErrorRateIsScaledQuotient ==
  /\ [](frameCount = 0 => ~report.any)
  /\ [](report.any =>
          LET f == report.frames
              e == report.errors
              r == report.rate
          IN  /\ f > 0
              /\ f + e > 0
              /\ r.k = "num"
              /\ (e = 0) => r = FloatZero
              /\ (e > 0) =>
                    /\ r.m >= FLT_ONE /\ r.m < FLT_TOP /\ r.x < 0
                    /\ ClaimAbs(r.m - ClaimScaledRate(e, f + e, 0 - r.x)) <= 2
              /\ ClaimAbs(ClaimHundredths(r) - ((10000 * e) \div (f + e))) <= 1
              /\ (f = 1000 /\ e = 50) => ClaimHundredths(r) = 476)
  /\ [][(pc = "stats" /\ emitted') =>
           /\ report'.any
           /\ report'.frames = frameCount
           /\ report'.errors = errorCount]_vars

\* The report of 1000 frames and 50 errors has just been written.
C12_Witness ==
  /\ pc = "pace"
  /\ emitted
  /\ frameCount = 1000
  /\ errorCount = 50
  /\ report.frames = 1000
  /\ report.errors = 50
  /\ ClaimHundredths(report.rate) = 476

\* C13: one statistics report per 100 frames: a report is written only at a
\* positive multiple of 100 of frameCount, never at frameCount 0, and from one
\* report to the next frameCount has advanced by 100, whatever the mix of
\* successful and failed iterations.
C13_OneReportPerHundredFrames ==
  /\ [](report.any => (report.frames > 0 /\ report.frames % 100 = 0))
  /\ [][(pc = "stats" /\ frameCount = 0) => ~emitted']_vars
  /\ [][(pc = "stats" /\ emitted' /\ report.any) =>
           report'.frames = report.frames + 100]_vars

\* A buffer that holds status text or the test pattern.
ClaimStatusMode(b) == b.text # "" \/ b.lines

\* C14: the display modes are exclusive. Status text and the test pattern are
\* drawn only by setup(), before loop() has started, or in the fatal cycle;
\* the bitmap is drawn only by processFrame inside loop(), with
\* cameraInitialized true, into a buffer just cleared; every flushed screen
\* was built from a cleared buffer and holds status text, or the test
\* pattern, or the bitmap, or nothing, never two of them.
C14_DisplayModesExclusive ==
  /\ [](~(screen.bmp /\ ClaimStatusMode(screen)))
  /\ [](screen.bmp => (pc \in LoopPcs /\ cameraInitialized /\ iter >= 1))
  /\ [][(dispBuf' # dispBuf /\ ClaimStatusMode(dispBuf')) =>
           (pc \notin LoopPcs /\ iter = 0 /\ ~dispBuf'.bmp)]_vars
  /\ [][(dispBuf' # dispBuf /\ dispBuf'.bmp) =>
           /\ pc = "pf_draw"
           /\ cameraInitialized
           /\ dispBuf = ClearedBuf
           /\ dispBuf' = DrawBitmap(ClearedBuf, bitmapBuffer)]_vars
  /\ [][(screen' # screen) =>
           /\ screen' = dispBuf'
           /\ \/ screen' = ClearedBuf
              \/ screen' = TestBuf
              \/ screen' = StatusBuf(screen'.text, screen'.stats)
              \/ screen' = DrawBitmap(ClearedBuf, bitmapBuffer)]_vars

\* The first frame has replaced the ready screen: the panel shows the bitmap
\* of a bright frame and no text.
C14_Witness ==
  /\ pc = "pf_count"
  /\ iter = 1
  /\ fb = GoodFrame("bright")
  /\ screen.bmp
  /\ screen.text = ""
  /\ screen = DrawBitmap(ClearedBuf, bitmapBuffer)

\* C15: the PSRAM line of the memory report carries the faulty-memory warning
\* exactly when PSRAM is present with a free value of zero; an absent PSRAM
\* gets the other line, without warning, and a PSRAM with free memory gets no
\* warning. Read where the report of initCamera's entry is the last line
\* written.
C15_WarningOnlyWhenNothingFree ==
  (pc = "init_try" /\ nInit = 0) =>
     /\ lastMsg \in {WarningLine, AbsentLine}
     /\ (lastMsg = WarningLine) <=> (psram.found /\ psram.free = 0)
     /\ (~psram.found) => (lastMsg = AbsentLine)

\* C16: in the fatal cycle the panel alternates for ever between the short
\* screen and the detailed screen with the counters: from every state of the
\* cycle each of the two is shown again later.
C16_FatalScreensAlternate ==
  /\ [](pc = "fatal_loop" => <>(screen = StatusBuf("Camera FAILED!", FALSE)))
  /\ [](pc = "fatal_loop" => <>(screen = StatusBuf("Hardware DEFECT!", TRUE)))

\* C17: in the fatal cycle the sketch keeps writing to Serial: from every
\* state of the cycle reached by a step that wrote nothing, a later step
\* writes a line.
C17_FatalKeepsEmitting ==
  [](((pc = "fatal_loop") /\ ~emitted) => <>emitted)

\* C18: a failed presence probe is fatal: once the probe has reported
\* not-found, setup() gets no further than display.begin and its halt,
\* whatever display.begin returns: no ready display, no camera
\* initialization, no streaming.
C18_FailedProbeIsFatal ==
  (pc \notin {"boot", "probe"} /\ ~probeFound) =>
     /\ pc \in {"begin", "halt"}
     /\ nInit = 0
     /\ ~Streaming

\* C19: every esp_camera_init request has a power-cycle of its own before
\* it: one before the first request and one between any two consecutive
\* requests, so the power-cycles are never fewer than the requests and
\* never more than one ahead.
C19_EachAttemptPowerCycled ==
  /\ nInit <= nPowerCycle
  /\ nPowerCycle <= nInit + 1
  /\ (pc = "init_failed") => (nPowerCycle = nInit)

\* C20: between a failed request k < MAX_RETRIES and request k + 1 the
\* sketch waits k seconds and calls esp_camera_deinit exactly once: request
\* k + 1 starts after k failed requests, k deinits and a last delay of
\* k * 1000 ms; each delay is longer than the one before; esp_camera_deinit
\* is called nowhere else.
C20_BackoffAndDeinitBetweenAttempts ==
  /\ []((pc = "init_try" /\ attempt >= 2 /\ attempt <= MAX_RETRIES) =>
          /\ nInit = attempt - 1
          /\ nInitOk = 0
          /\ nDeinit = attempt - 1
          /\ backoff = (attempt - 1) * 1000)
  /\ [][(pc = "init_failed" /\ attempt < MAX_RETRIES) =>
           /\ backoff' = attempt * 1000
           /\ backoff' > backoff
           /\ nDeinit' = nDeinit + 1
           /\ nInit' = nInit
           /\ attempt' = attempt + 1
           /\ pc' = "init_try"]_vars
  /\ [][(nDeinit' # nDeinit \/ backoff' # backoff) =>
           (pc = "init_failed" /\ attempt < MAX_RETRIES)]_vars

\* The last request is about to be made: four failures, four deinits, and a
\* last delay of four seconds.
C20_Witness ==
  /\ pc = "init_try"
  /\ attempt = MAX_RETRIES
  /\ nInit = MAX_RETRIES - 1
  /\ nDeinit = MAX_RETRIES - 1
  /\ backoff = 4000

\* C21: a successful iteration runs acquire, (validate,) convert, release,
\* clear, draw, flush, count in this order: the bitmap is written only by the
\* conversion, while the frame is held; the frame is given back by the step
\* right after the conversion, so no display operation runs while a frame is
\* held; frameCount is incremented only by the step right after the flush,
\* when the panel shows the drawn bitmap.
C21_SuccessfulIterationOrder ==
  /\ [][/\ (pc = "pf_get" /\ fb' # NoFrame) => pc' = "pf_validate"
        /\ (pc = "pf_validate" /\ ~Mismatch(fb)) => pc' = "pf_convert"
        /\ (pc = "pf_convert") => pc' = "pf_return"
        /\ (pc = "pf_return") => pc' = "pf_clear"
        /\ (pc = "pf_clear") => pc' = "pf_draw"
        /\ (pc = "pf_draw") => pc' = "pf_flush"
        /\ (pc = "pf_flush") => pc' = "pf_count"
        /\ (pc = "pf_count") => (pc' = "stats" /\ success')]_vars
  /\ [][(outstanding' = outstanding + 1) => pc = "pf_get"]_vars
  /\ [][(bitmapBuffer' # bitmapBuffer) => (pc = "pf_convert" /\ outstanding = 1)]_vars
  /\ [][(pc = "pf_return") => (outstanding = 1 /\ outstanding' = 0)]_vars
  /\ [][(pc \in LoopPcs /\ dispBuf' # dispBuf) =>
           (pc \in {"pf_clear", "pf_draw"} /\ outstanding = 0)]_vars
  /\ [][(pc \in LoopPcs /\ screen' # screen) =>
           (pc = "pf_flush" /\ outstanding = 0)]_vars
  /\ [][(frameCount' # frameCount) =>
           /\ pc = "pf_count"
           /\ frameCount' = frameCount + 1
           /\ outstanding = 0
           /\ screen = DrawBitmap(ClearedBuf, bitmapBuffer)]_vars

\* A bright frame has been converted, released, drawn and flushed, and is
\* about to be counted.
C21_Witness ==
  /\ pc = "pf_count"
  /\ fb = GoodFrame("bright")
  /\ outstanding = 0
  /\ frameCount = 0
  /\ bitmapBuffer = convertFrameToBitmap(fb, ZeroBytes)
  /\ screen = DrawBitmap(ClearedBuf, bitmapBuffer)

\* The index gray[srcY * 96 + srcX] read for the destination pixel (x, y).
ClaimReadIndex(x, y) == SrcY(y) * 96 + SrcX(x)

\* C22: whenever convertFrameToBitmap runs its loops on a frame, every
\* destination pixel 0 <= x < 128, 0 <= y < 64 samples a source column
\* 0 <= srcX <= 95 and a source row 0 <= srcY <= 95, so the byte read,
\* gray[srcY * 96 + srcX], lies within [0, 96 * 96 - 1] and within the
\* frame's buffer; the last column x = 127 samples srcX = 95 and the last
\* row y = 63 samples a row within range.
C22_SampleIndicesInRange ==
  (pc = "pf_convert" /\ ~ConvertSkips(fb)) =>
     /\ \A x \in 0..127 : SrcX(x) >= 0 /\ SrcX(x) <= 95
     /\ \A y \in 0..63 : SrcY(y) >= 0 /\ SrcY(y) <= 95
     /\ \A x \in 0..127 : \A y \in 0..63 :
           /\ ClaimReadIndex(x, y) >= 0
           /\ ClaimReadIndex(x, y) <= 96 * 96 - 1
           /\ ClaimReadIndex(x, y) < fb.len
     /\ SrcX(127) = 95
     /\ SrcX(0) = 0
     /\ SrcY(0) = 0

\* The ramp frame has been converted: the last destination pixel (127, 63),
\* bit 0 of the last byte, is the thresholded source pixel at its read index.
C22_Witness ==
  /\ pc = "pf_return"
  /\ fb = GoodFrame("ramp")
  /\ ClaimReadIndex(127, 63) = 94 * 96 + 95
  /\ (0 \in BitsOf(bitmapBuffer[BMP_BYTES - 1]))
        <=> (Pixel("ramp", ClaimReadIndex(127, 63)) > 64)

\* C23: acquisition is gated by initialization. loop() and processFrame run,
\* esp_camera_fb_get is called and the bitmap is drawn only while
\* cameraInitialized is true; during setup(), initCamera and in both fatal
\* states no frame is acquired or held, no bitmap is drawn or shown, and
\* frameCount and errorCount keep their reset value 0.
C23_AcquisitionGatedByInit ==
  /\ []((pc \in LoopPcs) => cameraInitialized)
  /\ []((pc \notin LoopPcs) =>
          /\ frameCount = 0
          /\ errorCount = 0
          /\ fb = NoFrame
          /\ outstanding = 0
          /\ bitmapBuffer = ZeroBytes
          /\ ~dispBuf.bmp
          /\ ~screen.bmp)
  /\ []((CameraFailedFatal \/ DisplayFailedFatal) => (~cameraInitialized /\ iter = 0))
  /\ [][(fb' # fb /\ fb' # NoFrame) => (pc = "pf_get" /\ cameraInitialized)]_vars
  /\ [][(dispBuf' # dispBuf /\ dispBuf'.bmp) => (pc = "pf_draw" /\ cameraInitialized)]_vars
  /\ [][(frameCount' # frameCount \/ errorCount' # errorCount) =>
           (pc \in LoopPcs /\ cameraInitialized)]_vars

\* Both sides of the gate have run: the retries are exhausted and the fatal
\* cycle shows its screen, with no frame ever acquired.
C23_Witness ==
  /\ pc = "fatal_loop"
  /\ nInit = MAX_RETRIES
  /\ ~cameraInitialized
  /\ screen = StatusBuf("Hardware DEFECT!", TRUE)
  /\ fb = NoFrame
  /\ frameCount = 0
  /\ errorCount = 0

\* (paceTime - startTime) mod 2^32 when that is below 2^17, else 2^17: the
\* difference of the high halves mod 2^16 times 2^16, plus the difference of
\* the low halves.
ClaimElapsed ==
  LET hd == (paceTime[1] - startTime[1] + 65536) % 65536
      v == hd * 65536 + (paceTime[2] - startTime[2])
  IN  IF hd <= 2 /\ v >= 0 /\ v < 131072 THEN v ELSE 131072

\* C24: with elapsed = (millis() at the pacing - startTime) mod 2^32, loop()
\* calls delay(50 - elapsed) exactly when elapsed < 50 and makes no call of
\* delay otherwise; the argument is within 1..50, also when the clock wraps
\* around 2^32 between the two readings.
C24_PacingDelayExact ==
  /\ slept \subseteq 1..50
  /\ (pc = "reset") =>
        slept = IF ClaimElapsed < 50 THEN {50 - ClaimElapsed} ELSE {}
  /\ (pc # "reset") => slept = {}

\* The clock wrapped between the two readings: 20 ms before the wrap at the
\* start, 29 ms after it at the pacing, and a delay of 1 ms.
C24_Witness ==
  /\ pc = "reset"
  /\ startTime = << 65535, 65516 >>
  /\ paceTime = << 0, 29 >>
  /\ ClaimElapsed = 49
  /\ slept = {1}

\* C25: a failed iteration (no frame, or a frame of the wrong width, height
\* or format) changes errorCount only: processFrame returns false from the
\* acquisition or the validation, and up to there bitmapBuffer, the display
\* buffer, the panel, frameCount and cameraInitialized are untouched; the
\* conversion and the clear, draw and flush run only on a frame that passed
\* the validation, in an iteration that returns true. The panel keeps the
\* last frame shown.
C25_FailedIterationOnlyCountsError ==
  /\ [][(pc \in {"loop_start", "pf_get", "pf_validate"}) =>
           UNCHANGED << bitmapBuffer, dispBuf, screen, frameCount,
                        cameraInitialized >>]_vars
  /\ [][(pc' = "stats" /\ pc # "stats" /\ ~success') =>
           /\ pc \in {"pf_get", "pf_validate"}
           /\ fb' = NoFrame \/ Mismatch(fb')
           /\ errorCount' = errorCount + 1
           /\ UNCHANGED << bitmapBuffer, dispBuf, screen, frameCount,
                           cameraInitialized >>]_vars
  /\ []((pc \in {"pf_convert", "pf_return", "pf_clear", "pf_draw", "pf_flush",
                  "pf_count"}) => (fb # NoFrame /\ ~Mismatch(fb)))
  /\ []((pc = "stats" /\ ~success /\ frameCount >= 1) =>
          (screen.bmp /\ dispBuf = screen
             /\ screen = DrawBitmap(ClearedBuf, bitmapBuffer)))

\* A bright frame was shown, then an iteration failed on a frame of the wrong
\* size: the panel still shows the bright frame.
C25_Witness ==
  /\ pc = "stats"
  /\ ~success
  /\ Mismatch(fb)
  /\ iter = 2
  /\ frameCount = 1
  /\ errorCount = 1
  /\ bitmapBuffer = convertFrameToBitmap(GoodFrame("bright"), ZeroBytes)
  /\ screen = DrawBitmap(ClearedBuf, bitmapBuffer)

====
